---- MODULE Spec2Model ----
(***************************************************************************)
(* Streaming chat turn orchestrator of base-project:                       *)
(*   ChatService.chat_stream / _handle_function_call (chat_service.py),    *)
(*   RoleSelector.select_most_relevant_role (role_selector.py),            *)
(*   MemoryService / RedisMemory (memory_service.py, redis_memory.py).     *)
(*                                                                         *)
(* Text is a sequence of tokens.  Tokens:                                  *)
(*   "x"            one character of ordinary reply text                   *)
(*   "eo" "ec"      the emotion brackets  (U+300E, U+300F)                 *)
(*   "ao" "ac"      the action brackets   (U+3010, U+3011)                 *)
(*   "p" "q"        label characters                                       *)
(*   "{" "}"        JSON braces                                            *)
(*   "fck"          the quoted key  "function_call"                        *)
(*   "rag"          the body  : {"name": "trigger_rag", "arguments": ...}  *)
(*   "junk"         a body that is not JSON                                *)
(*   "ni" "why" "w" message characters: a second-person pronoun, a         *)
(*                  follow-up keyword, any other character                 *)
(***************************************************************************)
EXTENDS Integers, Sequences, FiniteSets, TLC

VARIABLES
    pc,                  \* position of the chat_stream generator
    session,             \* result of _get_session: NoSession or the bound role ids
    message,             \* the user message of the turn
    show_thinking,       \* request parameter
    model_type,          \* "deepseek" | "qianwen" ("unset" before step 7)
    history,             \* result of build_message_history
    selected_role,       \* chat_stream local
    content_classification, \* chat_stream local: None or the classification code
    content_buffer,      \* chat_stream local
    last_emotion,        \* chat_stream local
    last_action,         \* chat_stream local
    fc_content_buffer,   \* _handle_function_call local content_buffer
    fc_last_emotion,     \* _handle_function_call local last_emotion
    fc_last_action,      \* _handle_function_call local last_action
    sent_content_cache,  \* ChatService.sent_content_cache (key -> text)
    last_selected_role,  \* RoleSelector.last_selected_role
    hot_log,             \* Redis list chat:history:<session_id>
    events,              \* the SSE frames yielded so far, in order
    backend,             \* the generation backend of this turn: chunk form and emission mode
    gen,                 \* text the first generation stream has produced so far
    gen2,                \* text the second (post-retrieval) stream has produced so far
    chunks,              \* chunks of the first stream consumed so far
    chunks2,             \* chunks of the second stream(s) consumed so far
    generate_calls,      \* calls of llm_service.generate (the persona scorer)
    stream_calls,        \* calls of llm_service.generate_stream
    rag_calls,           \* calls of FunctionCaller.trigger_rag
    classification_result, \* None, the code classify_content returned, or "raise"
    universe,            \* what the environment of this run may produce
    sel,                 \* the last call of select_most_relevant_role
    mem,                 \* the memory service: what was appended, the last read
    retrieval,           \* the last trigger_rag call: None, its outcome, or "waiting"
    conc                 \* turns and reads in progress on one session, and its cold store

vars == <<pc, session, message, show_thinking, model_type, history, selected_role,
          content_classification, content_buffer, last_emotion, last_action,
          fc_content_buffer, fc_last_emotion, fc_last_action, sent_content_cache,
          last_selected_role, hot_log, events, backend, gen, gen2, chunks, chunks2,
          generate_calls, stream_calls, rag_calls, classification_result, universe,
          sel, mem, retrieval, conc>>

----------------------------------------------------------------------------
(* Bounds *)

\* chunks the generation backend emits in one turn, both streams together
MaxChunks == 3

\* calls of select_most_relevant_role in the selector specifications
MaxSelectCalls == 3

\* requests served through the endpoint in the endpoint specification
MaxApiTurns == 3

\* messages appended to the session in the memory specification
MaxMessages == 3

----------------------------------------------------------------------------
(* Values *)

None == "None"
NoSession == <<"no-session">>
Empty == <<>>

RoleIds == {"r1", "r2", "r3"}

\* RoleReference.system_prompt is Optional[str]
SystemPromptOf(role) == IF role = "r3" THEN None ELSE "prompt"

\* Session.roles
SessionRoles == {<<>>, <<"r1">>, <<"r1", "r2">>, <<"r1", "r3">>}

SelectorRoles == SessionRoles \cup {<<"r2">>, <<"r2", "r1">>, <<"r1", "r3">>, <<"r3">>}

Pronouns == {"ni"}
FollowUps == {"why"}
FollowUpMaxTail == 10

PlainMessage == <<"w">>
PronounMessage == <<"w", "ni">>
FollowUpMessage == <<"why", "w">>
LongFollowUpMessage == <<"why", "w", "w", "w", "w", "w", "w", "w", "w", "w", "w", "w">>

SelectorMessages == {PlainMessage, PronounMessage, FollowUpMessage, LongFollowUpMessage}

\* hot log entries of an earlier turn
PriorLog == <<[role |-> "user", content |-> PlainMessage],
              [role |-> "assistant", content |-> <<"x">>]>>

\* the requests of the turn specification: a first turn of a fresh selector, and a
\* follow-up turn after persona r2 answered
TurnRequests ==
    {[message |-> PlainMessage, hot_log |-> <<>>, last |-> None, show_thinking |-> FALSE],
     [message |-> PronounMessage, hot_log |-> PriorLog, last |-> "r2", show_thinking |-> TRUE]}

MaxContextLength == 40

\* outcomes of call_function("classify_content") chat_stream distinguishes: an
\* approving code, the blocking code "1", an exception
ClassOutcomes == {"0", "1", "raise"}

ModelTypes == {"deepseek", "qianwen"}

DX == <<"x">>
DTag == <<"eo", "p", "ec", "ao", "q", "ac">>
DTag2 == <<"eo", "q", "ec">>
DFcJson == <<"{", "fck", "rag", "}">>
DBadJson == <<"{", "fck", "junk", "}">>
DFrag == <<"{", "fck">>
DTail == <<"rag", "}">>

\* what the backend may generate next in the first stream
Deltas == {DX, DTag, DFcJson, DBadJson, DFrag, DTail}

\* what the backend may generate next in the second stream
ReplyDeltas == {DX, DTag}

\* the function_call objects a structured chunk may carry
FcRag == "trigger_rag"
FcUnknown == "no_such_function"
FcNotADict == "not-a-dict"
\* trigger_rag with an arguments string that json.loads rejects: _parse_function_args
\* answers {"error": ...}, so call_function misses the required "query"
FcBadArgs == "trigger_rag-unparseable-arguments"
FunctionCalls == {FcRag, FcUnknown, FcNotADict, FcBadArgs}

\* outcomes of FunctionCaller.trigger_rag: text was retrieved ("data"), nothing was
\* found ("none": retrieved False and a reason), the retrieval service raised
\* ("failed": retrieved False and the text of the exception under "error")
RagOutcomes == {"data", "none", "failed"}

\* the data field of the function_result frame of a call that retrieved nothing
RagMiss(outcome) ==
    IF outcome = "failed" THEN <<"success", "error_detail">> ELSE <<"success">>

Apology == <<"eo", "q", "ec", "x", "ao", "p", "ac">>
RagData == <<"x">>

\* what the shipped adapters send: DeepseekService.generate_stream yields one content
\* dict per delta, QianwenService.generate_stream yields content dicts holding the
\* whole text so far
EmissionOf(mt) == IF mt = "deepseek" THEN "delta" ELSE "cumulative"

\* the chunk forms chat_stream handles and the emission modes it reconciles; a backend
\* that sends content dicts emits as the adapter of its model type does
Backends == [form : {"str", "dict"}, emission : {"delta", "cumulative"}]

BackendsOf(mt) == {b \in Backends : b.form = "dict" => b.emission = EmissionOf(mt)}

Ev(type, text, role) == [event |-> type, text |-> text, role |-> role]

----------------------------------------------------------------------------
(* Text operations *)

\* str.startswith
StartsWith(s, prefix) ==
    /\ Len(prefix) <= Len(s)
    /\ SubSeq(s, 1, Len(prefix)) = prefix

\* tok in s
Contains(s, tok) == \E i \in 1..Len(s) : s[i] = tok

\* index of the first tok in s at or after position from; 0 when there is none
RECURSIVE IndexFrom(_, _, _)
IndexFrom(s, tok, from) ==
    IF from > Len(s) THEN 0
    ELSE IF s[from] = tok THEN from
    ELSE IndexFrom(s, tok, from + 1)

\* re.search(open + '(.*?)' + close, text).group(1): the leftmost opening bracket
\* and the nearest closing bracket after it.  None and the empty match are both
\* falsy for the callers and are both rendered as the empty text.
ExtractTag(text, open, close) ==
    LET i == IndexFrom(text, open, 1)
        j == IF i = 0 THEN 0 ELSE IndexFrom(text, close, i + 1)
    IN  IF i = 0 \/ j = 0 THEN Empty ELSE SubSeq(text, i + 1, j - 1)

_extract_emotion(text) == ExtractTag(text, "eo", "ec")

_extract_action(text) == ExtractTag(text, "ao", "ac")

\* content_str.startswith("{") and content_str.endswith("}") and
\* "\"function_call\"" in content_str
LooksLikeFunctionCallJson(content_str) ==
    /\ content_str # Empty
    /\ content_str[1] = "{"
    /\ content_str[Len(content_str)] = "}"
    /\ Contains(content_str, "fck")

\* json.loads(content_str) followed by 'function_call' in parsed_json:
\* "error" for a JSONDecodeError, else the function_call object or None.
\* The only well-formed object over the tokens is { "function_call" : body }.
JsonLoadsFunctionCall(content_str) ==
    IF content_str = DFcJson THEN FcRag ELSE "error"

----------------------------------------------------------------------------
(* RoleSelector *)

\* re.search(pronoun_pattern, message)
HasPronoun(msg) == \E i \in 1..Len(msg) : msg[i] \in Pronouns

\* re.search(r'^(kw).{0,10}$', message)
IsFollowUp(msg) ==
    /\ msg # Empty
    /\ msg[1] \in FollowUps
    /\ Len(msg) - 1 <= FollowUpMaxTail

_should_continue_with_last_role(msg, chat_history, last) ==
    IF chat_history = Empty \/ last = None THEN FALSE
    ELSE HasPronoun(msg) \/ IsFollowUp(msg)

\* the first role of roles, in order, whose id occurs in the response
RECURSIVE FirstNamed(_, _, _)
FirstNamed(response, roles, i) ==
    IF i > Len(roles) THEN None
    ELSE IF roles[i] \in response THEN roles[i]
    ELSE FirstNamed(response, roles, i + 1)

\* the response is the set of role ids that occur in it
_parse_role_selection(response, roles) ==
    LET named == FirstNamed(response, roles, 1)
    IN  IF named # None THEN named ELSE roles[1]

\* _build_evaluation_prompt raises TypeError when a bound role has no system_prompt:
\* _legacy_extract hands None to re.search
BuildPromptRaises(roles) ==
    \E i \in 1..Len(roles) : SystemPromptOf(roles[i]) = None

\* scorer: ok is FALSE when llm_service.generate raises; ids are the role ids that occur
\* in its answer
ScorerOutcomes ==
    {[ok |-> FALSE, ids |-> {}]}
        \cup {[ok |-> TRUE, ids |-> s] : s \in {{}, {"r1"}, {"r2"}, {"r1", "r2"}, {"r3"}}}

SelResult(role, last, calls, raised) ==
    [role |-> role, last |-> last, calls |-> calls, raised |-> raised]

ScoreRoles(roles, scorer) ==
    IF ~scorer.ok
    THEN SelResult(roles[1], roles[1], 1, FALSE)
    ELSE LET role_id == _parse_role_selection(scorer.ids, roles)
         IN  SelResult(role_id, role_id, 1, FALSE)

ContinueWithLast(roles, last) == SelResult(last, last, 0, FALSE)

\* mutant: the single bound role loses against the role of the previous call
SingleRoleKeepsLast(roles, last) ==
    SelResult(IF last # None THEN last ELSE roles[1], last, 0, FALSE)

SingleRole(roles, last) == SelResult(roles[1], roles[1], 0, FALSE)

select_most_relevant_role(msg, roles, chat_history, last, scorer) ==
    IF roles = Empty THEN SelResult(None, last, 0, FALSE)
    ELSE IF Len(roles) = 1 THEN SingleRole(roles, last)
    ELSE IF /\ last # None
            /\ _should_continue_with_last_role(msg, chat_history, last)
            /\ \E i \in 1..Len(roles) : roles[i] = last
         THEN ContinueWithLast(roles, last)
    ELSE IF BuildPromptRaises(roles) THEN SelResult(None, last, 0, TRUE)
    ELSE ScoreRoles(roles, scorer)

----------------------------------------------------------------------------
(* Conversation memory *)

\* Redis LRANGE key start stop: zero-based inclusive indexes, a negative stop counts
\* from the tail, a stop past the tail is the tail
LRange(log, start, stop) ==
    LET last == IF stop < 0 THEN Len(log) + stop
                ELSE IF stop > Len(log) - 1 THEN Len(log) - 1 ELSE stop
    IN  SubSeq(log, start + 1, last + 1)

\* RedisMemory.get_messages.  RedisService.llen answers 0 when the command fails and
\* RedisService.lrange answers [] when the command fails; neither raises.
get_messages(log, limit, llen_ok, lrange_ok) ==
    LET length == IF llen_ok THEN Len(log) ELSE 0
        start == IF length - limit > 0 THEN length - limit ELSE 0
        end == length - 1
    IN  IF lrange_ok THEN LRange(log, start, end) ELSE <<>>

\* RedisMemory.get_messages after its LLEN: the indexes computed from the length LLEN
\* answered, and the LRANGE on the list as it is when that command runs
get_messages_lrange(log, length, limit) ==
    LET start == IF length - limit > 0 THEN length - limit ELSE 0
        end == length - 1
    IN  LRange(log, start, end)

IsDialogueRole(m) == m.role \in {"user", "assistant"}

\* the methods of MongoService
MongoServiceMethods ==
    {"get_collection", "transaction", "insert_one", "find_one", "find_by_id",
     "find_many", "update_one", "update_by_id", "delete_one", "delete_by_id", "count"}

\* the document of docs with the smallest timestamp
OldestOf(docs) ==
    CHOOSE i \in 1..Len(docs) : \A j \in 1..Len(docs) :
        docs[i].timestamp <= docs[j].timestamp

\* docs without its element i
Without(docs, i) == SubSeq(docs, 1, i - 1) \o SubSeq(docs, i + 1, Len(docs))

\* sort = [("timestamp", 1)]
RECURSIVE SortByTimestamp(_)
SortByTimestamp(docs) ==
    IF docs = <<>> THEN <<>>
    ELSE LET i == OldestOf(docs)
         IN  <<docs[i]>> \o SortByTimestamp(Without(docs, i))

FirstN(docs, n) == SubSeq(docs, 1, IF n < Len(docs) THEN n ELSE Len(docs))

\* MongoBackup.get_session_history: self.mongo_service.find raises AttributeError when
\* MongoService has no such method, and the except clause answers []
get_session_history(cold, limit) ==
    IF "find" \in MongoServiceMethods
    THEN FirstN(SortByTimestamp(cold), limit)
    ELSE <<>>

\* MemoryService.get_full_history
get_full_history(cold, limit) == get_session_history(cold, limit)

\* MemoryService.build_message_history(session_id, limit); limit 0 stands for the
\* default None
BuildMessageHistory(log, limit, llen_ok, lrange_ok) ==
    LET actual_limit == IF limit = 0 THEN MaxContextLength ELSE limit
    IN  SelectSeq(get_messages(log, actual_limit, llen_ok, lrange_ok), IsDialogueRole)

\* ModelAdapter.build_messages normalises the role names of the history
NormalRole(role) ==
    IF role \in {"system", "user", "assistant"} THEN role
    ELSE IF role \in {"bot", "ai"} THEN "assistant"
    ELSE "user"

NormalHistory(h) ==
    [i \in 1..Len(h) |-> [role |-> NormalRole(h[i].role), content |-> h[i].content]]

\* mutant: the current message is not added behind the history
build_messages_history_only(msg, system_prompt, h) ==
    (IF system_prompt # Empty
     THEN <<[role |-> "system", content |-> system_prompt]>> ELSE <<>>)
        \o NormalHistory(h)

\* ModelAdapter.build_messages: the system prompt when there is one, the history, the
\* current user message
build_messages(msg, system_prompt, h) ==
    (IF system_prompt # Empty
     THEN <<[role |-> "system", content |-> system_prompt]>> ELSE <<>>)
        \o NormalHistory(h)
        \o <<[role |-> "user", content |-> msg]>>

\* MemoryService.build_message_history with the default limit and a working store
build_message_history(log) == BuildMessageHistory(log, 0, TRUE, TRUE)

\* mutant: the message is pushed at the head of the list
add_message_lpush(log, role, content) ==
    <<[role |-> role, content |-> content]>> \o log

\* RedisMemory.add_message: rpush
add_message(log, role, content) == Append(log, [role |-> role, content |-> content])

\* the expiry of the hot list: none, or the 48 hours RedisMemory.message_ttl arms
NoTtl == "none"
MessageTtl == "48h"

\* mutant: a failed push leaves RedisMemory.add_message as an exception
RedisAddMessageRaises(log, ttl, role, content, rpush_ok, expire_ok) ==
    LET pushed == IF rpush_ok THEN add_message(log, role, content) ELSE log
    IN  [log |-> pushed,
         ttl |-> IF expire_ok /\ pushed # <<>> THEN MessageTtl ELSE ttl,
         raised |-> ~rpush_ok]

\* RedisMemory.add_message: RPUSH, then EXPIRE as a second command.  RedisService.rpush
\* and RedisService.expire catch the failure of their command and answer 0 / False,
\* and both answers are ignored, so nothing is raised.  EXPIRE on a key that does not
\* exist changes nothing.
RedisAddMessage(log, ttl, role, content, rpush_ok, expire_ok) ==
    LET pushed == IF rpush_ok THEN add_message(log, role, content) ELSE log
    IN  [log |-> pushed,
         ttl |-> IF expire_ok /\ pushed # <<>> THEN MessageTtl ELSE ttl,
         raised |-> FALSE]

\* MemoryService.add_user_message / add_assistant_message: the hot write, then the
\* task of the cold write; an exception of the hot write skips the cold write and is
\* logged.  MongoBackup.backup_message catches the failure of the insert.
MemoryAdd(log, ttl, role, content, rpush_ok, expire_ok, insert_ok) ==
    LET hot == RedisAddMessage(log, ttl, role, content, rpush_ok, expire_ok)
    IN  [log |-> hot.log,
         ttl |-> hot.ttl,
         cold_written |-> ~hot.raised /\ insert_ok,
         raised |-> FALSE]

\* the record of the memory service after the write w of (role, content)
MemAfter(m, w, role, content, rpush_ok, insert_ok) ==
    [m EXCEPT !.appended = Append(@, [role |-> role, content |-> content]),
              !.writes_ok = @ /\ rpush_ok,
              !.op = "add",
              !.rpush_ok = rpush_ok,
              !.insert_ok = insert_ok,
              !.cold_written = w.cold_written,
              !.raised = w.raised,
              !.ttl = w.ttl]

----------------------------------------------------------------------------
(* Stream normalizer *)

\* mutant: every string chunk is taken for a cumulative snapshot
ReconcileAlwaysReplace(buffer, chunk) == chunk

\* chat_stream, string chunk: the adaptive accumulation
Reconcile(buffer, chunk) ==
    IF buffer # Empty /\ StartsWith(chunk, buffer) THEN chunk ELSE buffer \o chunk

\* chat_stream, ordinary content chunk of the first stream: the new content_buffer and
\* the text that is cached, scanned for tags and sent
Accumulate(buffer, form, mt, content) ==
    IF form = "dict"
    THEN IF mt = "deepseek"
         THEN [buffer |-> buffer \o content, shown |-> buffer \o content]
         ELSE [buffer |-> buffer, shown |-> content]
    ELSE [buffer |-> Reconcile(buffer, content), shown |-> Reconcile(buffer, content)]

\* the value a tag variable takes after a scan
NextTag(extracted, last) ==
    IF extracted # Empty /\ extracted # last THEN extracted ELSE last

\* the emotion and action frames a scan of text yields
TagEvents(text, lastE, lastA, role) ==
    LET e == _extract_emotion(text)
        a == _extract_action(text)
    IN  (IF e # Empty /\ e # lastE THEN <<Ev("emotion", e, role)>> ELSE <<>>)
        \o (IF a # Empty /\ a # lastA THEN <<Ev("action", a, role)>> ELSE <<>>)

\* dict update and delete of sent_content_cache
CachePut(cache, key, text) == (key :> text) @@ cache

CacheDel(cache, key) == [k \in DOMAIN cache \ {key} |-> cache[k]]

NoCache == [k \in {} |-> Empty]

\* the content of the next chunk the backend sends after generating delta
ChunkBody(b, sofar, delta) == IF b.emission = "delta" THEN delta ELSE sofar \o delta

Chunk(kind, content, fc) == [kind |-> kind, content |-> content, fc |-> fc]

NChunks == Len(chunks) + Len(chunks2)

----------------------------------------------------------------------------
(* chat_stream *)

TurnUniverse == [deltas |-> Deltas \ {DTag, DBadJson}, fcs |-> {FcRag},
                 store_fails |-> FALSE,
                 read_fails |-> FALSE, client_leaves |-> FALSE,
                 rag_hangs |-> FALSE, nested_calls |-> FALSE]

\* a backend whose replies carry emotion and action labels, more than one per reply,
\* and that may ask for retrieval
TagUniverse == [deltas |-> {DX, DTag, DTag2}, fcs |-> {FcRag}, store_fails |-> FALSE,
                read_fails |-> FALSE, client_leaves |-> FALSE,
                 rag_hangs |-> FALSE, nested_calls |-> FALSE]

\* a plain reply while the commands of the hot store and of the cold store may fail
StoreUniverse == [deltas |-> {DX}, fcs |-> {}, store_fails |-> TRUE,
                  read_fails |-> FALSE, client_leaves |-> FALSE,
                 rag_hangs |-> FALSE, nested_calls |-> FALSE]

\* the same while LLEN and LRANGE of the hot store may fail
ReadFailUniverse == [deltas |-> {DX}, fcs |-> {}, store_fails |-> FALSE,
                     read_fails |-> TRUE, client_leaves |-> FALSE,
                     rag_hangs |-> FALSE, nested_calls |-> FALSE]

\* a client that may close the connection while the reply is streamed
DisconnectUniverse == [deltas |-> {DX}, fcs |-> {FcRag}, store_fails |-> FALSE,
                       read_fails |-> FALSE, client_leaves |-> TRUE,
                       rag_hangs |-> FALSE, nested_calls |-> FALSE]

\* a retrieval service that may leave the request without an answer, and a backend
\* that may ask for a function again in the stream opened after the retrieval
RetrievalUniverse == [deltas |-> {DX}, fcs |-> {FcRag}, store_fails |-> FALSE,
                      read_fails |-> FALSE, client_leaves |-> FALSE,
                      rag_hangs |-> TRUE, nested_calls |-> TRUE]

\* a backend whose function calls cannot be served: an unknown name, a value that is
\* not a dict, arguments that are not JSON, a call written as text that is not JSON
BadCallUniverse == [deltas |-> {DX, DBadJson}, fcs |-> FunctionCalls \ {FcRag},
                    store_fails |-> FALSE,
                    read_fails |-> FALSE, client_leaves |-> FALSE,
                    rag_hangs |-> FALSE, nested_calls |-> FALSE]

Universes == {TurnUniverse, TagUniverse, StoreUniverse, DisconnectUniverse,
              RetrievalUniverse, BadCallUniverse}

RagHang == IF universe.rag_hangs THEN {"hang"} ELSE {}

\* the outcomes of a store command in this run
StoreOutcomes == IF universe.store_fails THEN BOOLEAN ELSE {TRUE}

ReadOutcomes == IF universe.read_fails THEN BOOLEAN ELSE {TRUE}

NoSel == [n |-> 0, message |-> Empty, roles |-> <<>>, chat_history |-> <<>>,
          before |-> None, role |-> None, calls |-> 0, raised |-> FALSE]

\* the turns of the session specification
SessionTurns == {1, 2}

\* no turn and no read has started, nothing is archived, get_full_history was not called
NoConc == [turn |-> [t \in SessionTurns |-> [pc |-> "idle", length |-> 0,
                                             history |-> <<>>]],
           read |-> [pc |-> "idle", limit |-> 0, length |-> 0, seen |-> {},
                     result |-> <<>>],
           cold |-> <<>>, full |-> <<>>, full_limit |-> 0, cleared |-> 0,
           expired |-> FALSE]

\* the documents backup_message has archived for the entries of a hot log
Archive(log) ==
    [i \in 1..Len(log) |-> [role |-> log[i].role, content |-> log[i].content,
                            timestamp |-> i]]

NoMem == [appended |-> <<>>, writes_ok |-> TRUE, op |-> None, limit |-> 0,
          llen_ok |-> TRUE, lrange_ok |-> TRUE, rpush_ok |-> TRUE, insert_ok |-> TRUE,
          cold_written |-> FALSE, raised |-> FALSE, ttl |-> NoTtl]

InitTurn(req) ==
    /\ pc = "start"
    /\ session = NoSession
    /\ message = req.message
    /\ show_thinking = req.show_thinking
    /\ model_type = "unset"
    /\ history = <<>>
    /\ selected_role = None
    /\ content_classification = None
    /\ content_buffer = Empty
    /\ last_emotion = Empty
    /\ last_action = Empty
    /\ fc_content_buffer = Empty
    /\ fc_last_emotion = Empty
    /\ fc_last_action = Empty
    /\ sent_content_cache = NoCache
    /\ last_selected_role = req.last
    /\ hot_log = req.hot_log
    /\ events = <<>>
    /\ backend = [form |-> "dict", emission |-> "delta"]
    /\ gen = Empty
    /\ gen2 = Empty
    /\ chunks = <<>>
    /\ chunks2 = <<>>
    /\ generate_calls = 0
    /\ stream_calls = 0
    /\ rag_calls = 0
    /\ classification_result = None
    /\ sel = NoSel
    /\ retrieval = None
    /\ conc = [NoConc EXCEPT !.cold = Archive(req.hot_log)]
    /\ mem = [NoMem EXCEPT !.ttl = IF req.hot_log # <<>> THEN MessageTtl ELSE NoTtl]

Init ==
    /\ universe \in Universes
    /\ \E req \in TurnRequests : InitTurn(req)

\* the except clause of chat_stream: one error frame, the generator ends
Fail ==
    /\ events' = Append(events, Ev("error", Empty, None))
    /\ pc' = "done"

\* mutant: the branch for a missing session does not return
AfterGetSessionNoReturn(s) == "select"

\* where chat_stream goes after _get_session: it returns when there is no session
AfterGetSession(s) == IF s = NoSession THEN "done" ELSE "select"

\* steps 1 and 2: _get_session and build_message_history
GetSession ==
    /\ pc = "start"
    /\ \E s \in {NoSession} \cup SessionRoles :
        /\ session' = s
        /\ pc' = AfterGetSession(s)
        /\ IF s = NoSession
           THEN /\ events' = Append(events, Ev("error", Empty, None))
                /\ UNCHANGED history
           ELSE /\ history' = build_message_history(hot_log)
                /\ UNCHANGED events
    /\ UNCHANGED <<message, show_thinking, model_type, selected_role,
                   content_classification, content_buffer, last_emotion, last_action,
                   fc_content_buffer, fc_last_emotion, fc_last_action,
                   sent_content_cache, last_selected_role, hot_log, backend, gen, gen2,
                   chunks, chunks2, generate_calls, stream_calls, rag_calls,
                   classification_result, universe, sel,
                   mem,
                   retrieval, conc>>

\* step 3: select the persona and announce it
SelectRole ==
    /\ pc = "select"
    /\ \E scorer \in ScorerOutcomes :
        LET r == select_most_relevant_role(message, session, history,
                                           last_selected_role, scorer)
        IN  IF session = <<>>
            THEN /\ pc' = "save_user"
                 /\ UNCHANGED <<selected_role, last_selected_role, generate_calls, events>>
            ELSE IF r.raised
            THEN /\ Fail
                 /\ UNCHANGED <<selected_role, last_selected_role, generate_calls>>
            ELSE /\ selected_role' = r.role
                 /\ last_selected_role' = r.last
                 /\ generate_calls' = generate_calls + r.calls
                 /\ events' = IF r.role # None
                              THEN Append(events, Ev("role_selected", Empty, r.role))
                              ELSE events
                 /\ pc' = "save_user"
    /\ UNCHANGED <<session, message, show_thinking, model_type, history,
                   content_classification, content_buffer, last_emotion, last_action,
                   fc_content_buffer, fc_last_emotion, fc_last_action,
                   sent_content_cache, hot_log, backend, gen, gen2, chunks, chunks2,
                   stream_calls, rag_calls, classification_result, universe, sel,
                   mem,
                   retrieval, conc>>

\* step 4: add_user_message
SaveUserMessage ==
    /\ pc = "save_user"
    /\ \E rpush_ok \in StoreOutcomes, insert_ok \in StoreOutcomes :
        LET w == MemoryAdd(hot_log, mem.ttl, "user", message, rpush_ok, TRUE, insert_ok)
        IN  /\ hot_log' = w.log
            /\ mem' = MemAfter(mem, w, "user", message, rpush_ok, insert_ok)
    /\ pc' = "classify"
    /\ UNCHANGED <<session, message, show_thinking, model_type, history, selected_role,
                   content_classification, content_buffer, last_emotion, last_action,
                   fc_content_buffer, fc_last_emotion, fc_last_action,
                   sent_content_cache, last_selected_role, events, backend, gen, gen2,
                   chunks, chunks2, generate_calls, stream_calls, rag_calls,
                   classification_result, universe, sel,
                   retrieval, conc>>

\* mutant: the blocking branch does not return
AfterClassificationNoReturn(outcome) == "thinking"

\* where chat_stream goes after the classification
AfterClassification(outcome) == IF outcome = "1" THEN "done" ELSE "thinking"

\* mutant: the except clause keeps the failed classification
KeptClassificationOnFailure(outcome) == IF outcome = "1" THEN None ELSE outcome

\* the classification chat_stream keeps for the system prompt and the backend call:
\* none after the blocking code and none when call_function raised
KeptClassification(outcome) == IF outcome \in {"1", "raise"} THEN None ELSE outcome

\* step 5: classify the message; code "1" ends the turn
Classify ==
    /\ pc = "classify"
    /\ \E outcome \in ClassOutcomes :
        /\ classification_result' = outcome
        /\ content_classification' = KeptClassification(outcome)
        /\ events' = IF outcome = "1"
                     THEN Append(events, Ev("error", Empty, None))
                     ELSE events
        /\ pc' = AfterClassification(outcome)
    /\ UNCHANGED <<session, message, show_thinking, model_type, history, selected_role,
                   content_buffer, last_emotion, last_action, fc_content_buffer,
                   fc_last_emotion, fc_last_action, sent_content_cache,
                   last_selected_role, hot_log, backend, gen, gen2, chunks, chunks2,
                   generate_calls, stream_calls, rag_calls, universe, sel,
                   mem,
                   retrieval, conc>>

\* mutant: the thinking frame is sent without looking at show_thinking
ThinkingFramesAlways(show) ==
    <<Ev("thinking", Empty, None), Ev("thinking_completed", Empty, None)>>

\* step 6 and the frame before step 10: thinking when show_thinking is set, then
\* thinking_completed in every turn
ThinkingFrames(show) ==
    (IF show THEN <<Ev("thinking", Empty, None)>> ELSE <<>>)
        \o <<Ev("thinking_completed", Empty, None)>>

\* steps 6 to 10: the thinking frames, the model type, the first generate_stream call
OpenStream ==
    /\ pc = "thinking"
    /\ \E mt \in ModelTypes :
        \E b \in BackendsOf(mt) :
            /\ model_type' = mt
            /\ backend' = b
    /\ events' = events \o ThinkingFrames(show_thinking)
    /\ stream_calls' = stream_calls + 1
    /\ pc' = "stream"
    /\ UNCHANGED <<session, message, show_thinking, history, selected_role,
                   content_classification, content_buffer, last_emotion, last_action,
                   fc_content_buffer, fc_last_emotion, fc_last_action,
                   sent_content_cache, last_selected_role, hot_log, gen, gen2, chunks,
                   chunks2, generate_calls, rag_calls, classification_result, universe,
                   sel,
                   mem,
                   retrieval, conc>>

\* what chat_stream does with the content of a chunk: "dispatch" it as a function
\* call, "skip" it, or treat it as reply "content"
InlineDecision(form, content_str) ==
    IF form # "dict" THEN "content"
    ELSE IF LooksLikeFunctionCallJson(content_str)
         THEN IF JsonLoadsFunctionCall(content_str) # "error" THEN "dispatch" ELSE "content"
    ELSE IF Contains(content_str, "fck") THEN "skip"
    ELSE "content"

\* mutant: call_function hands every call to trigger_rag, whatever its name
CallsRetrievalAnyName(fc) == fc # FcNotADict

\* call_function reaches trigger_rag, and with it the retrieval service, only for the
\* registered name trigger_rag with its required argument
CallsRetrieval(fc) == fc = FcRag

\* _handle_function_call up to its return or to the opening of the second stream
HandleFunctionCall(fc) ==
    LET start == Ev("function_call_start", Empty, fc)
    IN  IF fc = FcNotADict
        THEN \* function_call_data.get raises, outside the try of _handle_function_call
             /\ Fail
             /\ UNCHANGED <<rag_calls, stream_calls, fc_content_buffer, fc_last_emotion,
                            fc_last_action, gen2, retrieval>>
        ELSE IF ~CallsRetrieval(fc)
        THEN \* call_function raises ValueError
             /\ events' = events \o <<start, Ev("function_result", <<"error">>, fc),
                                      Ev("content", Apology, selected_role)>>
             /\ UNCHANGED <<pc, rag_calls, stream_calls, fc_content_buffer,
                            fc_last_emotion, fc_last_action, gen2, retrieval>>
        ELSE \E outcome \in RagOutcomes \cup RagHang :
             /\ rag_calls' = rag_calls + 1
             /\ retrieval' = IF outcome = "hang" THEN "waiting" ELSE outcome
             /\ IF outcome = "hang"
                THEN \* the request to the retrieval service is awaited
                     /\ events' = Append(events, start)
                     /\ pc' = "rag_wait"
                     /\ UNCHANGED <<stream_calls, fc_content_buffer, fc_last_emotion,
                                    fc_last_action, gen2>>
                ELSE IF outcome = "data"
                THEN /\ events' = events \o <<start,
                                              Ev("thinking_content", RagData, None),
                                              Ev("rag_thinking_completed", Empty, None)>>
                     /\ stream_calls' = stream_calls + 1
                     /\ fc_content_buffer' = Empty
                     /\ fc_last_emotion' = Empty
                     /\ fc_last_action' = Empty
                     /\ gen2' = Empty
                     /\ pc' = "fc_stream"
                ELSE /\ events' = events \o <<start,
                                              Ev("function_result", RagMiss(outcome), fc)>>
                     /\ UNCHANGED <<pc, stream_calls, fc_content_buffer, fc_last_emotion,
                                    fc_last_action, gen2>>

\* one chunk of the first stream that carries text
ContentChunk ==
    /\ pc = "stream"
    /\ NChunks < MaxChunks
    /\ \E delta \in universe.deltas :
        LET body == ChunkBody(backend, gen, delta)
            decision == InlineDecision(backend.form, body)
            acc == Accumulate(content_buffer, backend.form, model_type, body)
        IN  /\ gen' = gen \o delta
            /\ chunks' = Append(chunks, Chunk(backend.form, body, None))
            /\ IF decision = "dispatch"
               THEN /\ HandleFunctionCall(JsonLoadsFunctionCall(body))
                    /\ UNCHANGED <<content_buffer, last_emotion, last_action,
                                   sent_content_cache>>
               ELSE IF decision = "skip"
               THEN UNCHANGED <<pc, events, content_buffer, last_emotion, last_action,
                                sent_content_cache, rag_calls, stream_calls,
                                fc_content_buffer, fc_last_emotion, fc_last_action, gen2,
                                retrieval>>
               ELSE /\ content_buffer' = acc.buffer
                    /\ sent_content_cache' =
                           CachePut(sent_content_cache, "request_id", acc.shown)
                    /\ last_emotion' = NextTag(_extract_emotion(acc.shown), last_emotion)
                    /\ last_action' = NextTag(_extract_action(acc.shown), last_action)
                    /\ events' = events
                           \o TagEvents(acc.shown, last_emotion, last_action, selected_role)
                           \o <<Ev("content", acc.shown, selected_role)>>
                    /\ UNCHANGED <<pc, rag_calls, stream_calls, fc_content_buffer,
                                   fc_last_emotion, fc_last_action, gen2, retrieval>>
    /\ UNCHANGED <<session, message, show_thinking, model_type, history, selected_role,
                   content_classification, last_selected_role, hot_log, backend, chunks2,
                   generate_calls, classification_result, universe, sel,
                   mem, conc>>

\* one chunk of the first stream with a top-level function_call
FunctionCallChunk ==
    /\ pc = "stream"
    /\ NChunks < MaxChunks
    /\ \E fc \in universe.fcs :
        /\ chunks' = Append(chunks, Chunk("fc", Empty, fc))
        /\ HandleFunctionCall(fc)
    /\ UNCHANGED <<session, message, show_thinking, model_type, history, selected_role,
                   content_classification, content_buffer, last_emotion, last_action,
                   sent_content_cache, last_selected_role, hot_log, backend, gen, chunks2,
                   generate_calls, classification_result, universe, sel,
                   mem, conc>>

\* _handle_function_call, one chunk of the second stream: the new local
\* content_buffer, whether it is cached, whether tags are scanned, the text sent
SecondAccumulate(buffer, form, mt, content) ==
    IF form = "dict"
    THEN LET b == IF mt = "qianwen" THEN content ELSE buffer \o content
         IN  [buffer |-> b, cached |-> TRUE, scanned |-> TRUE, shown |-> b]
    ELSE IF mt = "deepseek"
         THEN [buffer |-> buffer \o content, cached |-> FALSE, scanned |-> TRUE,
               shown |-> buffer \o content]
         ELSE [buffer |-> buffer, cached |-> FALSE, scanned |-> FALSE, shown |-> content]

\* the text of a chunk of the second stream: reply text, or a function call written
\* as JSON
SecondDeltas == ReplyDeltas \cup (IF universe.nested_calls THEN {DFcJson} ELSE {})

\* one chunk of the second stream that carries text
SecondChunk ==
    /\ pc = "fc_stream"
    /\ NChunks < MaxChunks
    /\ \E delta \in SecondDeltas :
        LET body == ChunkBody(backend, gen2, delta)
            acc == SecondAccumulate(fc_content_buffer, backend.form, model_type, body)
        IN  /\ gen2' = gen2 \o delta
            /\ chunks2' = Append(chunks2, Chunk(backend.form, body, None))
            /\ fc_content_buffer' = acc.buffer
            /\ sent_content_cache' =
                   IF acc.cached
                   THEN CachePut(sent_content_cache, "session_id", acc.buffer)
                   ELSE sent_content_cache
            /\ fc_last_emotion' =
                   IF acc.scanned THEN NextTag(_extract_emotion(body), fc_last_emotion)
                   ELSE fc_last_emotion
            /\ fc_last_action' =
                   IF acc.scanned THEN NextTag(_extract_action(body), fc_last_action)
                   ELSE fc_last_action
            /\ events' = events
                   \o (IF acc.scanned
                       THEN TagEvents(body, fc_last_emotion, fc_last_action, selected_role)
                       ELSE <<>>)
                   \o <<Ev("content", acc.shown, selected_role)>>
    /\ UNCHANGED <<pc, session, message, show_thinking, model_type, history,
                   selected_role, content_classification, content_buffer, last_emotion,
                   last_action, last_selected_role, hot_log, backend, gen, chunks,
                   generate_calls, stream_calls, rag_calls, classification_result,
                   universe, sel,
                   mem,
                   retrieval, conc>>

\* mutant: the loop over the second stream dispatches a function_call chunk as the
\* loop over the first stream does
SecondChunkHandlingLikeFirst(kind) == IF kind = "fc" THEN "dispatch" ELSE "content"

\* what the loop over the second stream does with a chunk: a dict with content and a
\* string are reply "content"; a dict without content matches no branch
SecondChunkHandling(kind) == IF kind = "fc" THEN "ignore" ELSE "content"

\* one chunk of the second stream with a top-level function_call and no content
SecondFunctionCallChunk ==
    /\ pc = "fc_stream"
    /\ universe.nested_calls
    /\ NChunks < MaxChunks
    /\ \E fc \in universe.fcs :
        /\ chunks2' = Append(chunks2, Chunk("fc", Empty, fc))
        /\ IF SecondChunkHandling("fc") = "dispatch"
           THEN HandleFunctionCall(fc)
           ELSE UNCHANGED <<pc, events, rag_calls, stream_calls, fc_content_buffer,
                            fc_last_emotion, fc_last_action, gen2, retrieval>>
    /\ UNCHANGED <<session, message, show_thinking, model_type, history, selected_role,
                   content_classification, content_buffer, last_emotion, last_action,
                   sent_content_cache, last_selected_role, hot_log, backend, gen, chunks,
                   generate_calls, classification_result, universe, sel, mem, conc>>

\* the second stream ends: _handle_function_call returns, the first stream goes on
SecondEnd ==
    /\ pc = "fc_stream"
    /\ pc' = "stream"
    /\ UNCHANGED <<session, message, show_thinking, model_type, history, selected_role,
                   content_classification, content_buffer, last_emotion, last_action,
                   fc_content_buffer, fc_last_emotion, fc_last_action,
                   sent_content_cache, last_selected_role, hot_log, events, backend, gen,
                   gen2, chunks, chunks2, generate_calls, stream_calls, rag_calls,
                   classification_result, universe, sel,
                   mem,
                   retrieval, conc>>

\* step 11: add_assistant_message, when there is a reply and a persona
SaveAssistantMessage ==
    IF content_buffer # Empty /\ selected_role # None
    THEN \E rpush_ok \in StoreOutcomes, insert_ok \in StoreOutcomes :
            LET w == MemoryAdd(hot_log, mem.ttl, "assistant", content_buffer,
                               rpush_ok, TRUE, insert_ok)
            IN  /\ hot_log' = w.log
                /\ mem' = MemAfter(mem, w, "assistant", content_buffer,
                                   rpush_ok, insert_ok)
    ELSE UNCHANGED <<hot_log, mem>>

\* steps 11 to 13: the first stream ends; save the reply, complete, clean the cache
StreamEnd ==
    /\ pc = "stream"
    /\ SaveAssistantMessage
    /\ events' = Append(events, Ev("completion", Empty, None))
    /\ sent_content_cache' = CacheDel(sent_content_cache, "request_id")
    /\ pc' = "done"
    /\ UNCHANGED <<session, message, show_thinking, model_type, history, selected_role,
                   content_classification, content_buffer, last_emotion, last_action,
                   fc_content_buffer, fc_last_emotion, fc_last_action,
                   last_selected_role, backend, gen, gen2, chunks, chunks2,
                   generate_calls, stream_calls, rag_calls, classification_result,
                   universe, sel,
                   retrieval, conc>>

\* the adapter reports a failure of the backend: DeepseekService and QianwenService
\* catch the exception, yield one dict {"error": {...}} and end the stream.  The dict
\* has no function_call and no content, so no branch of the loop body handles it; the
\* loop ends and steps 11 to 13 run.
ErrorChunk ==
    /\ pc = "stream"
    /\ NChunks < MaxChunks
    /\ chunks' = Append(chunks, Chunk("error", Empty, None))
    /\ SaveAssistantMessage
    /\ events' = Append(events, Ev("completion", Empty, None))
    /\ sent_content_cache' = CacheDel(sent_content_cache, "request_id")
    /\ pc' = "done"
    /\ UNCHANGED <<session, message, show_thinking, model_type, history, selected_role,
                   content_classification, content_buffer, last_emotion, last_action,
                   fc_content_buffer, fc_last_emotion, fc_last_action,
                   last_selected_role, backend, gen, gen2, chunks2, generate_calls,
                   stream_calls, rag_calls, classification_result, universe, sel,
                   retrieval, conc>>

\* the same in the second stream: the dict is neither a content dict nor a string,
\* the loop of _handle_function_call ends and the handler returns
SecondErrorChunk ==
    /\ pc = "fc_stream"
    /\ NChunks < MaxChunks
    /\ chunks2' = Append(chunks2, Chunk("error", Empty, None))
    /\ pc' = "stream"
    /\ UNCHANGED <<session, message, show_thinking, model_type, history, selected_role,
                   content_classification, content_buffer, last_emotion, last_action,
                   fc_content_buffer, fc_last_emotion, fc_last_action,
                   sent_content_cache, last_selected_role, hot_log, events, backend, gen,
                   gen2, chunks, generate_calls, stream_calls, rag_calls,
                   classification_result, universe, sel, mem,
                   retrieval, conc>>

\* mutant: the session of the retrieval request has no total timeout
ClientTimeoutNone(state) == "waiting"

\* RAGService.retrieve_stream opens aiohttp.ClientSession() with its default timeout
\* (a total of five minutes for the request and the reading of its body): a request
\* that gets no answer ends in a TimeoutError
ClientTimeout(state) == "timeout"

\* the retrieval request times out: retrieve_stream catches the error and yields an
\* error item without content, trigger_rag answers retrieved False, and
\* _handle_function_call sends the function_result frame and returns
RagTimeout ==
    /\ pc = "rag_wait"
    /\ retrieval' = ClientTimeout(retrieval)
    /\ IF retrieval' = "timeout"
       THEN /\ events' = Append(events, Ev("function_result", RagMiss("none"), FcRag))
            /\ pc' = "stream"
       ELSE UNCHANGED <<pc, events>>
    /\ UNCHANGED <<session, message, show_thinking, model_type, history, selected_role,
                   content_classification, content_buffer, last_emotion, last_action,
                   fc_content_buffer, fc_last_emotion, fc_last_action,
                   sent_content_cache, last_selected_role, hot_log, backend, gen,
                   gen2, chunks, chunks2, generate_calls, stream_calls, rag_calls,
                   classification_result, universe, sel, mem, conc>>

\* the client closes the connection while the reply is streamed: StreamingResponse
\* stops iterating event_generator, so the chat_stream generator is cancelled at the
\* await it is suspended in, or is never resumed from its yield.  Neither is an
\* Exception, so the except clause does not run; nothing after the loop runs.
Disconnect ==
    /\ universe.client_leaves
    /\ pc \in {"stream", "fc_stream", "rag_wait"}
    /\ pc' = "cancelled"
    /\ UNCHANGED <<session, message, show_thinking, model_type, history, selected_role,
                   content_classification, content_buffer, last_emotion, last_action,
                   fc_content_buffer, fc_last_emotion, fc_last_action,
                   sent_content_cache, last_selected_role, hot_log, events, backend,
                   gen, gen2, chunks, chunks2, generate_calls, stream_calls, rag_calls,
                   classification_result, universe, sel, mem, retrieval, conc>>

\* the steps of the turn itself
TurnStep ==
    \/ GetSession
    \/ SelectRole
    \/ SaveUserMessage
    \/ Classify
    \/ OpenStream
    \/ ContentChunk
    \/ FunctionCallChunk
    \/ SecondChunk
    \/ SecondFunctionCallChunk
    \/ SecondEnd
    \/ StreamEnd
    \/ ErrorChunk
    \/ SecondErrorChunk
    \/ RagTimeout

Next ==
    \/ TurnStep
    \/ Disconnect

Spec == Init /\ [][Next]_vars

\* turns whose retrieval service may not answer and whose client stays connected; the
\* event loop runs a turn that can take a step, the backend stream is finite and the
\* timer of the retrieval request fires
InitLive ==
    /\ universe = RetrievalUniverse
    /\ \E req \in TurnRequests : InitTurn(req)

SpecLive == InitLive /\ [][TurnStep]_vars /\ WF_vars(TurnStep)

----------------------------------------------------------------------------
(* The selector on its own: one RoleSelector object serving successive calls *)

SelectorHistories == {<<>>, build_message_history(PriorLog)}

InitSelector ==
    /\ universe = TurnUniverse
    /\ \E last \in {None} \cup RoleIds :
        InitTurn([message |-> Empty, hot_log |-> <<>>, last |-> last,
                  show_thinking |-> FALSE])

\* one call of select_most_relevant_role
SelectCall ==
    /\ sel.n < MaxSelectCalls
    /\ \E msg \in SelectorMessages, roles \in SelectorRoles,
          chat_history \in SelectorHistories, scorer \in ScorerOutcomes :
        LET r == select_most_relevant_role(msg, roles, chat_history,
                                           last_selected_role, scorer)
        IN  /\ sel' = [n |-> sel.n + 1, message |-> msg, roles |-> roles,
                       chat_history |-> chat_history, before |-> last_selected_role,
                       role |-> r.role, calls |-> r.calls, raised |-> r.raised]
            /\ last_selected_role' = r.last
    /\ UNCHANGED <<pc, session, message, show_thinking, model_type, history,
                   selected_role, content_classification, content_buffer, last_emotion,
                   last_action, fc_content_buffer, fc_last_emotion, fc_last_action,
                   sent_content_cache, hot_log, events, backend, gen, gen2, chunks,
                   chunks2, generate_calls, stream_calls, rag_calls,
                   classification_result, universe,
                   mem,
                   retrieval, conc>>

NextSelector == SelectCall

SpecSelector == InitSelector /\ [][NextSelector]_vars

----------------------------------------------------------------------------
(* Turns served through the HTTP endpoints: get_chat_service builds a new         *)
(* RoleSelector and a new ChatService for every request                            *)

\* last_selected_role of the RoleSelector get_role_selector returns
get_role_selector == None

InitApi ==
    /\ universe = TurnUniverse
    /\ InitTurn([message |-> Empty, hot_log |-> <<>>, last |-> None,
                 show_thinking |-> FALSE])

\* one request of GET /chatstream on the same session: the dependencies are built,
\* chat_stream reads the history, selects the persona and saves the user message; the
\* generated reply is saved when there is one and a persona was selected
ApiTurn ==
    /\ sel.n < MaxApiTurns
    /\ \E s \in SessionRoles, msg \in SelectorMessages, scorer \in ScorerOutcomes,
          reply \in {Empty, DX} :
        LET chat_history == build_message_history(hot_log)
            r == select_most_relevant_role(msg, s, chat_history, get_role_selector,
                                           scorer)
            with_user == add_message(hot_log, "user", msg)
        IN  /\ sel.n > 0 => s = session
            /\ session' = s
            /\ sel' = [n |-> sel.n + 1, message |-> msg, roles |-> s,
                       chat_history |-> chat_history, before |-> get_role_selector,
                       role |-> r.role, calls |-> r.calls, raised |-> r.raised,
                       prev |-> IF sel.n = 0 THEN None ELSE sel.role]
            /\ last_selected_role' = r.last
            /\ generate_calls' = generate_calls + r.calls
            /\ hot_log' = IF r.raised THEN hot_log
                          ELSE IF reply # Empty /\ r.role # None
                          THEN add_message(with_user, "assistant", reply)
                          ELSE with_user
    /\ UNCHANGED <<pc, message, show_thinking, model_type, history, selected_role,
                   content_classification, content_buffer, last_emotion, last_action,
                   fc_content_buffer, fc_last_emotion, fc_last_action,
                   sent_content_cache, events, backend, gen, gen2, chunks, chunks2,
                   stream_calls, rag_calls, classification_result, universe,
                   mem,
                   retrieval, conc>>

NextApi == ApiTurn

SpecApi == InitApi /\ [][NextApi]_vars

----------------------------------------------------------------------------
(* One RoleSelector object serving the turns of two sessions.  Next to the        *)
(* selector, the run keeps for each session the last_selected_role of a selector  *)
(* that serves the calls of that session only.                                    *)

SessionIds == {"A", "B"}

\* Session.roles of the two sessions
RolesOf(sid) == IF sid = "A" THEN <<"r1", "r2">> ELSE <<"r2">>

InitShared ==
    /\ universe = TurnUniverse
    /\ InitTurn([message |-> Empty, hot_log |-> <<>>, last |-> None,
                 show_thinking |-> FALSE])

\* one call of select_most_relevant_role for a turn of session sid
SharedCall ==
    /\ sel.n < MaxSelectCalls
    /\ \E sid \in SessionIds, msg \in SelectorMessages,
          chat_history \in SelectorHistories, scorer \in ScorerOutcomes :
        LET alone == IF sel.n = 0 THEN [x \in SessionIds |-> None] ELSE sel.alone
            r == select_most_relevant_role(msg, RolesOf(sid), chat_history,
                                           last_selected_role, scorer)
            ra == select_most_relevant_role(msg, RolesOf(sid), chat_history,
                                            alone[sid], scorer)
        IN  /\ sel' = [n |-> sel.n + 1, sid |-> sid, message |-> msg,
                       roles |-> RolesOf(sid), chat_history |-> chat_history,
                       before |-> last_selected_role, role |-> r.role,
                       calls |-> r.calls, raised |-> r.raised,
                       alone_role |-> ra.role,
                       alone |-> [alone EXCEPT ![sid] = ra.last]]
            /\ last_selected_role' = r.last
    /\ UNCHANGED <<pc, session, message, show_thinking, model_type, history,
                   selected_role, content_classification, content_buffer, last_emotion,
                   last_action, fc_content_buffer, fc_last_emotion, fc_last_action,
                   sent_content_cache, hot_log, events, backend, gen, gen2, chunks,
                   chunks2, generate_calls, stream_calls, rag_calls,
                   classification_result, universe,
                   mem,
                   retrieval, conc>>

NextShared == SharedCall

SpecShared == InitShared /\ [][NextShared]_vars

----------------------------------------------------------------------------
(* The memory service on its own: one session, appends and context reads          *)

MemContents == {<<"x">>, <<"w">>}

MemLimits == 0..MaxMessages

InitMemory ==
    /\ universe \in {StoreUniverse, ReadFailUniverse}
    /\ InitTurn([message |-> Empty, hot_log |-> <<>>, last |-> None,
                 show_thinking |-> FALSE])

\* the effect of add_user_message / add_assistant_message on the hot log; rpush
\* answers 0 and appends nothing when the command fails, and nothing is raised
AddMessage(role) ==
    /\ Len(mem.appended) < MaxMessages
    /\ \E content \in MemContents, rpush_ok \in BOOLEAN, expire_ok \in StoreOutcomes,
          insert_ok \in StoreOutcomes :
        LET w == MemoryAdd(hot_log, mem.ttl, role, content, rpush_ok, expire_ok,
                           insert_ok)
        IN  /\ hot_log' = w.log
            /\ mem' = MemAfter(mem, w, role, content, rpush_ok, insert_ok)
    /\ UNCHANGED <<pc, session, message, show_thinking, model_type, history,
                   selected_role, content_classification, content_buffer, last_emotion,
                   last_action, fc_content_buffer, fc_last_emotion, fc_last_action,
                   sent_content_cache, last_selected_role, events, backend, gen, gen2,
                   chunks, chunks2, generate_calls, stream_calls, rag_calls,
                   classification_result, universe, sel,
                   retrieval, conc>>

add_user_message == AddMessage("user")

add_assistant_message == AddMessage("assistant")

\* one call of build_message_history
ReadHistory ==
    /\ \E limit \in MemLimits, llen_ok \in ReadOutcomes, lrange_ok \in ReadOutcomes :
        /\ history' = BuildMessageHistory(hot_log, limit, llen_ok, lrange_ok)
        /\ mem' = [mem EXCEPT !.op = "read", !.limit = limit, !.llen_ok = llen_ok,
                              !.lrange_ok = lrange_ok]
    /\ UNCHANGED <<pc, session, message, show_thinking, model_type, selected_role,
                   content_classification, content_buffer, last_emotion, last_action,
                   fc_content_buffer, fc_last_emotion, fc_last_action,
                   sent_content_cache, last_selected_role, hot_log, events, backend,
                   gen, gen2, chunks, chunks2, generate_calls, stream_calls, rag_calls,
                   classification_result, universe, sel,
                   retrieval, conc>>

NextMemory ==
    \/ add_user_message
    \/ add_assistant_message
    \/ ReadHistory

SpecMemory == InitMemory /\ [][NextMemory]_vars

----------------------------------------------------------------------------
(* One session used concurrently.  Turns of chat_stream, calls of                 *)
(* build_message_history, get_full_history and clear_session_history run as       *)
(* coroutines of one event loop and interleave at the awaits of the store         *)
(* commands; the key of the hot log may expire.  The steps below are the store    *)
(* commands of each coroutine, in the order of the code.                          *)

MaxClears == 1

\* the hot log two earlier turns left behind
OlderLog == <<[role |-> "user", content |-> <<"w", "w">>],
              [role |-> "assistant", content |-> <<"x", "x">>]>>

TurnMessage(t) == IF t = 1 THEN PlainMessage ELSE PronounMessage

TurnReply(t) == IF t = 1 THEN DX ELSE DTag

\* limit arguments of build_message_history
ReadLimits == {1, 2}

\* limit arguments of get_full_history: a small one and the default
FullLimits == {1, 100}

InitSession ==
    /\ universe = TurnUniverse
    /\ \E log \in {<<>>, OlderLog} :
        InitTurn([message |-> Empty, hot_log |-> log, last |-> None,
                  show_thinking |-> FALSE])

\* the hot log changed while a build_message_history call is between its two commands
Seen(log) ==
    IF conc.read.pc = "lrange" THEN conc.read.seen \cup {log} ELSE conc.read.seen

\* the next timestamp of the cold store
Now == Len(conc.cold) + 1

\* mutant: the entry is pushed a second time
SessionAppendPushTwice(t, role, content, next) ==
    /\ hot_log' = add_message(add_message(hot_log, role, content), role, content)
    /\ conc' = [conc EXCEPT !.turn[t].pc = next,
                            !.read.seen = Seen(hot_log'),
                            !.cold = Append(@, [role |-> role, content |-> content,
                                                timestamp |-> Now])]

\* RPUSH of one entry and the archive task of the same message
SessionAppend(t, role, content, next) ==
    /\ hot_log' = add_message(hot_log, role, content)
    /\ conc' = [conc EXCEPT !.turn[t].pc = next,
                            !.read.seen = Seen(hot_log'),
                            !.cold = Append(@, [role |-> role, content |-> content,
                                                timestamp |-> Now])]

SessionFrame ==
    UNCHANGED <<pc, session, message, show_thinking, model_type, history, selected_role,
                content_classification, content_buffer, last_emotion, last_action,
                fc_content_buffer, fc_last_emotion, fc_last_action, sent_content_cache,
                last_selected_role, events, backend, gen, gen2, chunks, chunks2,
                generate_calls, stream_calls, rag_calls, classification_result,
                universe, sel, mem, retrieval>>

\* chat_stream step 2, first command of get_messages: LLEN
TurnLlen(t) ==
    /\ conc.turn[t].pc = "idle"
    /\ conc' = [conc EXCEPT !.turn[t].pc = "lrange", !.turn[t].length = Len(hot_log)]
    /\ UNCHANGED hot_log
    /\ SessionFrame

\* chat_stream step 2, second command of get_messages: LRANGE, with the default limit
TurnLrange(t) ==
    /\ conc.turn[t].pc = "lrange"
    /\ conc' = [conc EXCEPT
                   !.turn[t].pc = "save_user",
                   !.turn[t].history =
                       SelectSeq(get_messages_lrange(hot_log, conc.turn[t].length,
                                                     MaxContextLength),
                                 IsDialogueRole)]
    /\ UNCHANGED hot_log
    /\ SessionFrame

\* chat_stream step 4: add_user_message
TurnSaveUser(t) ==
    /\ conc.turn[t].pc = "save_user"
    /\ SessionAppend(t, "user", TurnMessage(t), "generate")
    /\ SessionFrame

\* the end of the stream: add_assistant_message
TurnSaveAssistant(t) ==
    /\ conc.turn[t].pc = "generate"
    /\ SessionAppend(t, "assistant", TurnReply(t), "done")
    /\ SessionFrame

\* the turn ends with nothing to save: blocked, failed, or an empty reply
TurnNoReply(t) ==
    /\ conc.turn[t].pc = "generate"
    /\ conc' = [conc EXCEPT !.turn[t].pc = "no_reply"]
    /\ UNCHANGED hot_log
    /\ SessionFrame

\* build_message_history(session, limit), first command: LLEN
ReadLlen ==
    /\ conc.read.pc \in {"idle", "done"}
    /\ \E limit \in ReadLimits :
        conc' = [conc EXCEPT !.read = [pc |-> "lrange", limit |-> limit,
                                       length |-> Len(hot_log), seen |-> {hot_log},
                                       result |-> <<>>]]
    /\ UNCHANGED hot_log
    /\ SessionFrame

\* build_message_history(session, limit), second command: LRANGE, then the formatting
ReadLrange ==
    /\ conc.read.pc = "lrange"
    /\ conc' = [conc EXCEPT
                   !.read.pc = "done",
                   !.read.result =
                       SelectSeq(get_messages_lrange(hot_log, conc.read.length,
                                                     conc.read.limit),
                                 IsDialogueRole)]
    /\ UNCHANGED hot_log
    /\ SessionFrame

\* clear_session_history: DEL of the hot key
ClearHistory ==
    /\ conc.cleared < MaxClears
    /\ hot_log' = <<>>
    /\ conc' = [conc EXCEPT !.cleared = @ + 1, !.read.seen = Seen(<<>>)]
    /\ SessionFrame

\* the TTL of the hot key runs out
HotLogExpires ==
    /\ ~conc.expired
    /\ hot_log # <<>>
    /\ \A t \in SessionTurns : conc.turn[t].pc \in {"idle", "done", "no_reply"}
    /\ hot_log' = <<>>
    /\ conc' = [conc EXCEPT !.expired = TRUE, !.read.seen = Seen(<<>>)]
    /\ SessionFrame

\* one call of get_full_history
FullHistory ==
    /\ \E limit \in FullLimits :
        conc' = [conc EXCEPT !.full = get_full_history(conc.cold, limit),
                             !.full_limit = limit]
    /\ UNCHANGED hot_log
    /\ SessionFrame

NextSession ==
    \/ \E t \in SessionTurns : TurnLlen(t)
    \/ \E t \in SessionTurns : TurnLrange(t)
    \/ \E t \in SessionTurns : TurnSaveUser(t)
    \/ \E t \in SessionTurns : TurnSaveAssistant(t)
    \/ \E t \in SessionTurns : TurnNoReply(t)
    \/ ReadLlen
    \/ ReadLrange
    \/ ClearHistory
    \/ HotLogExpires
    \/ FullHistory

SpecSession == InitSession /\ [][NextSession]_vars

----------------------------------------------------------------------------
(* Properties *)

TerminalEvents == {"completion", "error"}

TerminalIndexes == {i \in 1..Len(events) : events[i].event \in TerminalEvents}

ContentIndexes == {i \in 1..Len(events) : events[i].event = "content"}

LastEventIs(type) == events # <<>> /\ events[Len(events)].event = type

\* the text of the last content frame
LastContentText ==
    LET last == CHOOSE i \in ContentIndexes : \A j \in ContentIndexes : j <= i
    IN  events[last].text

AllContentChunks == \A i \in 1..Len(chunks) : chunks[i].kind \in {"str", "dict"}

RECURSIVE Concat(_)
Concat(cs) == IF cs = <<>> THEN Empty ELSE cs[1].content \o Concat(Tail(cs))

\* C1: a turn that has run to its end has emitted exactly one terminal frame, a
\* completion or an error, and that frame is the last one; a turn still running has
\* emitted none.
C1_OneTerminalEvent ==
    /\ Cardinality(TerminalIndexes) <= 1
    /\ \A i \in TerminalIndexes : i = Len(events)
    /\ (pc = "done") <=> (TerminalIndexes # {})

\* a turn failed in the middle of its stream, after reply content was sent
C1_Witness ==
    /\ pc = "done"
    /\ LastEventIs("error")
    /\ ContentIndexes # {}

C3_SinglePersona ==
    (sel.n > 0 /\ Len(sel.roles) = 1) =>
        (sel.role = sel.roles[1] /\ sel.calls = 0 /\ ~sel.raised)

\* the single role is returned although the continuity signals point to another one
C3_Witness ==
    /\ sel.n > 1
    /\ sel.roles = <<"r1">>
    /\ sel.before = "r2"
    /\ sel.message = PronounMessage
    /\ sel.chat_history # <<>>
    /\ sel.role = "r1"

\* C4: when every chunk of the stream is a cumulative snapshot of plain reply text,
\* the content_buffer at the end of the turn (the text that is saved as the reply) is
\* the last chunk, for string and dict chunks and every model type.
C4_CumulativeConverges ==
    (/\ pc = "done"
     /\ LastEventIs("completion")
     /\ backend.emission = "cumulative"
     /\ chunks # <<>>
     /\ AllContentChunks
     /\ ~Contains(gen, "fck"))
        => content_buffer = chunks[Len(chunks)].content

\* the chunks of the first stream are deltas of reply text: none carries
\* function-call text
PureDeltaRun ==
    /\ pc \in {"stream", "fc_stream", "done"}
    /\ backend.emission = "delta"
    /\ AllContentChunks
    /\ \A i \in 1..Len(chunks) : ~Contains(chunks[i].content, "fck")

\* no string delta starts with the non-empty text accumulated before it
NoPrefixHit ==
    backend.form = "str" =>
        \A i \in 2..Len(chunks) :
            LET before == Concat(SubSeq(chunks, 1, i - 1))
            IN  before = Empty \/ ~StartsWith(chunks[i].content, before)

C6_TagEventsOncePerValue ==
    \A i, j \in 1..Len(events) :
        (/\ i < j
         /\ events[i].event \in {"emotion", "action"}
         /\ events[i].event = events[j].event)
            => events[i].text # events[j].text

SecondStreamOpened ==
    \E i \in 1..Len(events) : events[i].event = "rag_thinking_completed"

NewEvents == SubSeq(events', Len(events) + 1, Len(events'))

\* C7: once a retrieval has succeeded and the second stream has been opened, no step
\* in which the first stream produces text sends a content frame.
C7_FirstStreamDiscarded ==
    [][(SecondStreamOpened /\ gen' # gen)
           => \A i \in 1..Len(NewEvents) : NewEvents[i].event # "content"]_vars

\* C8: a turn that completes after sending content for a selected persona, with a
\* working hot store, has appended, as the newest entry of the hot log, an assistant
\* entry whose content is the text of the last content frame.
C8_ReplyPersisted ==
    (/\ pc = "done"
     /\ LastEventIs("completion")
     /\ selected_role # None
     /\ ContentIndexes # {}
     /\ mem.writes_ok)
        => /\ hot_log # <<>>
           /\ hot_log[Len(hot_log)].role = "assistant"
           /\ hot_log[Len(hot_log)].content = LastContentText

\* C9: with a backend that sends content dicts, the text of an inline function-call
\* payload (its "function_call" key) is never part of content_buffer and never part
\* of a content frame.
C9_PayloadNeverInReply ==
    backend.form = "dict" =>
        /\ ~Contains(content_buffer, "fck")
        /\ \A i \in ContentIndexes : ~Contains(events[i].text, "fck")

\* C10: when the turn has ended, sent_content_cache holds no entry.
C10_CacheEmptyAtEnd == pc = "done" => DOMAIN sent_content_cache = {}

\* C11: through the endpoint, with two or more bound personas, when the preceding
\* turn selected a persona and the message carries a second-person pronoun or is a
\* short follow-up, the turn selects that persona again and does not call the scorer.
C11_ContinuityThroughApi ==
    (/\ sel.n > 1
     /\ Len(sel.roles) >= 2
     /\ sel.prev # None
     /\ HasPronoun(sel.message) \/ IsFollowUp(sel.message))
        => (sel.role = sel.prev /\ sel.calls = 0 /\ ~sel.raised)

\* C12: the persona a shared selector returns for a turn of a session is the persona
\* a selector serving that session alone returns for the same call.
C12_NoCrossSessionInfluence == sel.n > 0 => sel.role = sel.alone_role

\* C13: with two or more bound personas select_most_relevant_role does not raise,
\* whatever the scorer does and whatever the system prompts of the personas are.
C13_SelectNeverRaises == (sel.n > 0 /\ Len(sel.roles) >= 2) => ~sel.raised

\* C14: a chat_stream turn on a session without bound personas ends with an error
\* frame and opens no generation stream.
C14_NoPersonaFails ==
    (session = <<>> /\ pc \notin {"start", "select"})
        => (stream_calls = 0 /\ (pc = "done" => LastEventIs("error")))

\* C15: after N >= 1 user/assistant messages were appended to an empty session with a
\* working hot store, build_message_history with limit N returns exactly those N
\* (role, content) pairs in the order of the appends.
C15_RoundTrip ==
    (/\ mem.op = "read"
     /\ mem.writes_ok /\ mem.llen_ok /\ mem.lrange_ok
     /\ Len(mem.appended) >= 1
     /\ mem.limit = Len(mem.appended))
        => history = mem.appended

\* three messages of both roles were appended and read back
C15_Witness ==
    /\ mem.op = "read"
    /\ mem.writes_ok /\ mem.llen_ok /\ mem.lrange_ok
    /\ mem.limit = 3
    /\ Len(mem.appended) = 3
    /\ mem.appended[1].role = "user"
    /\ mem.appended[2].role = "assistant"
    /\ mem.appended[2].content # mem.appended[3].content
    /\ history = mem.appended

\* C16: a build_message_history call during which a command of the hot store fails
\* returns the empty list.
C16_EmptyOnStoreFailure ==
    (mem.op = "read" /\ (~mem.llen_ok \/ ~mem.lrange_ok)) => history = <<>>

BackendFailed ==
    \/ \E i \in 1..Len(chunks) : chunks[i].kind = "error"
    \/ \E i \in 1..Len(chunks2) : chunks2[i].kind = "error"

\* C17: a turn during which the adapter reported a failure of the generation backend
\* ends with an error frame, not with a completion frame.
C17_BackendFailureIsTerminalError ==
    (pc = "done" /\ BackendFailed) => LastEventIs("error")

\* the function_result frames of retrievals that retrieved nothing
RagMissIndexes ==
    {i \in 1..Len(events) :
        events[i].event = "function_result" /\ events[i].text[1] = "success"}

\* C18: in a completed turn, a trigger_rag call that failed or found nothing shows no
\* error detail of the retrieval and is followed by reply content.
C18_RagMissStillReplies ==
    (pc = "done" /\ LastEventIs("completion")) =>
        \A i \in RagMissIndexes :
            /\ ~Contains(events[i].text, "error_detail")
            /\ \E j \in ContentIndexes : j > i

\* the turn began with a trigger_rag call and the second stream has sent content
SecondStreamContent ==
    {j \in ContentIndexes :
        \E k \in 1..(j - 1) : events[k].event = "rag_thinking_completed"}

\* C19: when the first chunk of the turn is a trigger_rag function call, every content
\* frame of the second stream is preceded by a function_call_start frame and, after
\* it, a function result frame.
C19_StartResultContent ==
    (chunks # <<>> /\ chunks[1].kind = "fc" /\ chunks[1].fc = FcRag) =>
        \A j \in SecondStreamContent :
            \E a, b \in 1..(j - 1) :
                /\ a < b
                /\ events[a].event = "function_call_start"
                /\ events[b].event = "function_result"

\* each content frame of seq-indexed frames idx extends the content frame before it
PrefixChain(idx) ==
    \A i, j \in idx : i < j => StartsWith(events[j].text, events[i].text)

\* the content frames sent since the current second stream was opened
CurrentSecondContent ==
    {j \in ContentIndexes :
        \A k \in j..Len(events) : events[k].event # "rag_thinking_completed"}

RECURSIVE LastTagFrom(_, _, _, _)
LastTagFrom(text, open, close, i) ==
    IF i < 1 THEN Empty
    ELSE IF text[i] = open /\ IndexFrom(text, close, i + 1) # 0
         THEN SubSeq(text, i + 1, IndexFrom(text, close, i + 1) - 1)
         ELSE LastTagFrom(text, open, close, i - 1)

MostRecentTag(text, open, close) == LastTagFrom(text, open, close, Len(text))

EventWith(type, text) ==
    \E i \in 1..Len(events) : events[i].event = type /\ events[i].text = text

\* every chunk of the first stream so far was handled as reply content
OnlyReplyContent ==
    /\ pc \in {"stream", "done"}
    /\ chunks # <<>>
    /\ AllContentChunks
    /\ ~Contains(gen, "fck")

\* C21: after each update of the accumulated text, when the text holds an emotion
\* (action) label, the value chat_stream holds as last emotion (action) is the value
\* of the most recent such label in the text, and a frame with that value was sent.
C21_MostRecentTag ==
    OnlyReplyContent =>
        LET e == MostRecentTag(LastContentText, "eo", "ec")
            a == MostRecentTag(LastContentText, "ao", "ac")
        IN  /\ e # Empty => (last_emotion = e /\ EventWith("emotion", e))
            /\ a # Empty => (last_action = a /\ EventWith("action", a))

\* the step consumed a function call with an unknown name or unparseable arguments
BadFunctionCallStep ==
    /\ Len(chunks') = Len(chunks) + 1
    /\ chunks'[Len(chunks')].kind = "fc"
    /\ chunks'[Len(chunks')].fc \in {FcUnknown, FcBadArgs}

\* C22: a function call with an unknown name or unparseable arguments is a no-op: the
\* step that handles it invokes no retrieval, sends no content frame and no terminal
\* frame, and leaves the turn consuming the first stream.
C22_BadFunctionCallIsNoOp ==
    [][BadFunctionCallStep =>
           /\ rag_calls' = rag_calls
           /\ pc' = "stream"
           /\ \A i \in 1..Len(NewEvents) :
                  NewEvents[i].event \notin {"content", "completion", "error"}]_vars

\* the step is a call of add_user_message or add_assistant_message
MemoryWriteStep == Len(mem'.appended) = Len(mem.appended) + 1

\* C23: a step of the turn that writes a message behaves the same whether or not the
\* hot write or the cold write fails: nothing is raised, the step that saves the user
\* message goes on to the classification without a frame, the step that saves the
\* reply sends the completion frame; the cold write stores the message whenever the
\* cold store works, also after a failed hot write, and the hot write appends the
\* message whenever the hot store works, also when the cold write fails.
C23_WritesBestEffortIndependent ==
    [][MemoryWriteStep =>
           /\ ~mem'.raised
           /\ pc = "save_user" => (pc' = "classify" /\ events' = events)
           /\ pc = "stream" =>
                  (pc' = "done" /\ events' = Append(events, Ev("completion", Empty, None)))
           /\ mem'.insert_ok => mem'.cold_written
           /\ mem'.rpush_ok =>
                  hot_log' = Append(hot_log, mem'.appended[Len(mem'.appended)])]_vars

\* a turn completed although the hot write of the reply failed; its cold write was done
C23_Witness ==
    /\ pc = "done"
    /\ LastEventIs("completion")
    /\ ContentIndexes # {}
    /\ mem.op = "add"
    /\ mem.appended[Len(mem.appended)].role = "assistant"
    /\ ~mem.rpush_ok
    /\ mem.cold_written

\* C24: a hot log that holds a message has an expiry.
C24_NonEmptyLogExpires == hot_log # <<>> => mem.ttl = MessageTtl

\* C25: a turn whose client closed the connection after reply content was produced
\* for a selected persona has appended the assistant's reply to the memory.
C25_DisconnectStillRecords ==
    (pc = "cancelled" /\ content_buffer # Empty /\ selected_role # None) =>
        /\ mem.appended # <<>>
        /\ mem.appended[Len(mem.appended)] =
               [role |-> "assistant", content |-> content_buffer]

C27_ClassifierFailureDegrades ==
    [][(pc = "classify" /\ classification_result' = "raise") =>
           /\ pc' = "thinking"
           /\ events' = events
           /\ content_classification' = None]_vars

\* a turn completed with reply content after its classifier had failed
C27_Witness ==
    /\ classification_result = "raise"
    /\ content_classification = None
    /\ pc = "done"
    /\ LastEventIs("completion")
    /\ ContentIndexes # {}

\* a chunk of the first stream was suppressed as function-call text
SomeChunkSkipped ==
    \E i \in 1..Len(chunks) :
        /\ chunks[i].kind = "dict"
        /\ InlineDecision("dict", chunks[i].content) = "skip"

\* C28: a turn that has ended after function-call text was suppressed and no function
\* call was dispatched has ended with an error frame.
C28_UnresolvedFunctionCallIsError ==
    (/\ pc = "done"
     /\ SomeChunkSkipped
     /\ rag_calls = 0
     /\ \A i \in 1..Len(events) : events[i].event # "function_call_start")
        => LastEventIs("error")

\* a completed turn with one bound persona, an approved message, show_thinking off and
\* a stream of reply text without labels and without function-call text
PlainTurn ==
    /\ pc = "done"
    /\ Len(session) = 1 /\ session # NoSession
    /\ classification_result = "0"
    /\ ~show_thinking
    /\ chunks # <<>>
    /\ AllContentChunks
    /\ \A t \in {"eo", "ao", "fck"} : ~Contains(gen, t)

\* the frames from the one at index from up to the last but one are content frames
ContentThenCompletion(from) ==
    /\ Len(events) > from
    /\ \A i \in from..(Len(events) - 1) : events[i].event = "content"
    /\ events[Len(events)].event = "completion"

IndexesOf(types) == {i \in 1..Len(events) : events[i].event \in types}

\* C30: role_selected is sent at most once, thinking at most once and only when
\* show_thinking is set, and every thinking, emotion, action, function-call and
\* content frame has a role_selected frame before it.
C30_RoleSelectedFirst ==
    /\ Cardinality(IndexesOf({"role_selected"})) <= 1
    /\ Cardinality(IndexesOf({"thinking"})) <= 1
    /\ IndexesOf({"thinking"}) # {} => show_thinking
    /\ \A i \in IndexesOf({"thinking", "emotion", "action", "function_call_start",
                           "function_result", "content"}) :
           \E r \in IndexesOf({"role_selected"}) : r < i

----------------------------------------------------------------------------
\* the call returned a persona of the list it was given
ReturnedBoundPersona ==
    /\ ~sel.raised
    /\ \E i \in 1..Len(sel.roles) : sel.roles[i] = sel.role

\* C31: for every non-empty list of bound personas, every message, history and prior
\* selector state, select_most_relevant_role returns exactly one persona and it is one
\* of the personas passed to the call.
C31_ReturnsBoundPersona ==
    (sel.n > 0 /\ sel.roles # <<>>) => ReturnedBoundPersona

----------------------------------------------------------------------------
\* the function a chunk of the first stream asks for: the top-level function_call, or
\* the function_call of a content that is a complete JSON object
FunctionNamedBy(c) ==
    IF c.kind = "fc" THEN c.fc
    ELSE IF InlineDecision(c.kind, c.content) = "dispatch"
    THEN JsonLoadsFunctionCall(c.content)
    ELSE None

\* the chunks of the first stream, so far, whose function call names trigger_rag
TriggerRagChunks ==
    {i \in 1..Len(chunks) : FunctionNamedBy(chunks[i]) \in {FcRag, FcBadArgs}}

\* C32: knowledge retrieval is invoked in a turn only after the generation backend
\* emitted a function call naming trigger_rag in that turn: there are never more
\* retrieval calls than such function calls, so none in a stream without one.
C32_RetrievalOnlyOnTriggerRag == rag_calls <= Cardinality(TriggerRagChunks)

\* a retrieval was made, and the stream also carried text and a call of another name
C32_Witness ==
    /\ rag_calls = 1
    /\ Len(chunks) >= 2
    /\ \E i \in 1..Len(chunks) : FunctionNamedBy(chunks[i]) = None

----------------------------------------------------------------------------
\* the most recent limit entries of a log, oldest first, in the form
\* build_message_history returns them
MostRecent(log, limit) ==
    SelectSeq(SubSeq(log, IF Len(log) > limit THEN Len(log) - limit + 1 ELSE 1,
                     Len(log)),
              IsDialogueRole)

\* C33: build_message_history(session, limit) returns at most limit entries, oldest
\* first, and they are the most recent limit entries of the session's hot log as of
\* some moment during the call, also when other turns append to the log or
\* clear_session_history empties it while the read is in progress.
C33_ReadIsSnapshot ==
    conc.read.pc = "done"
        => /\ Len(conc.read.result) <= conc.read.limit
           /\ \E log \in conc.read.seen :
                  conc.read.result = MostRecent(log, conc.read.limit)

----------------------------------------------------------------------------
\* a call of get_full_history returned; full_limit is 0 until the first call
FullHistoryStep == conc'.full_limit # conc.full_limit

\* C34: get_full_history(session, limit) returns the messages archived in the cold
\* store for the session in ascending timestamp order, whatever happened to the hot
\* log (clear_session_history, expiry).
C34_FullHistoryFromColdStore ==
    [][FullHistoryStep
           => conc'.full = FirstN(SortByTimestamp(conc.cold), conc'.full_limit)]_vars

----------------------------------------------------------------------------
\* the places of an entry in the hot log
PlacesOf(role, content) ==
    {i \in 1..Len(hot_log) : hot_log[i] = [role |-> role, content |-> content]}

UserPlaces(t) == PlacesOf("user", TurnMessage(t))

ReplyPlaces(t) == PlacesOf("assistant", TurnReply(t))

\* the hot key was neither deleted nor expired in this run
OnlyTurnsWrote == conc.cleared = 0 /\ ~conc.expired

\* C38: with any interleaving of concurrent turns on the same session and a working
\* hot store, every appended message appears exactly once in the session's hot log,
\* and each turn's user message precedes that turn's own assistant message.
C38_AppendsOnceInOrder ==
    OnlyTurnsWrote =>
        \A t \in SessionTurns :
            /\ Cardinality(UserPlaces(t)) =
                   (IF conc.turn[t].pc \in {"generate", "done", "no_reply"} THEN 1 ELSE 0)
            /\ Cardinality(ReplyPlaces(t)) = (IF conc.turn[t].pc = "done" THEN 1 ELSE 0)
            /\ \A i \in UserPlaces(t), j \in ReplyPlaces(t) : i < j

\* two turns ran interleaved: the second turn's messages lie between the first turn's
C38_Witness ==
    /\ OnlyTurnsWrote
    /\ \A t \in SessionTurns : conc.turn[t].pc = "done"
    /\ \E i \in UserPlaces(1), j \in UserPlaces(2), k \in ReplyPlaces(2),
          l \in ReplyPlaces(1) : i < j /\ j < k /\ k < l
    /\ Len(hot_log) = Len(OlderLog) + 4

----------------------------------------------------------------------------
\* the types of the frames a reply is made of
ReplyEvents == {"content", "emotion", "action"}

\* C35: the second generation stream never triggers a further retrieval or function
\* dispatch: while it is consumed no retrieval is made, no further stream is opened and
\* only reply frames are sent, whatever its chunks carry.
C35_SecondStreamNeverDispatches ==
    [][pc = "fc_stream"
           => /\ rag_calls' = rag_calls
              /\ stream_calls' = stream_calls
              /\ \A i \in 1..Len(NewEvents) : NewEvents[i].event \in ReplyEvents]_vars

\* the second stream carried a top-level function call and a function call written as
\* JSON text, and the turn ended after one retrieval and two streams
C35_Witness ==
    /\ pc = "done"
    /\ \E i \in 1..Len(chunks2) : chunks2[i].kind = "fc" /\ chunks2[i].fc = FcRag
    /\ \E i \in 1..Len(chunks2) :
           chunks2[i].kind = "dict" /\ chunks2[i].content = DFcJson
    /\ rag_calls = 1
    /\ stream_calls = 2

----------------------------------------------------------------------------
\* the appends of this turn's user message
UserAppends ==
    {i \in 1..Len(mem.appended) :
        mem.appended[i] = [role |-> "user", content |-> message]}

\* the turn is past its step 4, or it has ended
PastSaveUser == pc \notin {"start", "select", "save_user"}

\* C36: every chat_stream turn that finds its session appends the user's message to
\* Conversation Memory exactly once, after persona selection and before
\* classification, so the message is in the hot log also when the turn is then blocked
\* or fails.
C36_UserMessageAlwaysSaved ==
    (session # NoSession /\ PastSaveUser)
        => /\ Cardinality(UserAppends) = 1
           /\ mem.writes_ok =>
                  \E i \in 1..Len(hot_log) :
                      hot_log[i] = [role |-> "user", content |-> message]

----------------------------------------------------------------------------
\* C37: if the session of a chat_stream turn does not exist or cannot be loaded, the
\* turn emits exactly one error event and nothing else and ends, and it leaves
\* Conversation Memory, the selector's last-selected persona and the output cache
\* unchanged, with no classification and no generation call.
C37_MissingSessionOnlyErrors ==
    [][(pc = "start" /\ session' = NoSession)
           => /\ events' = <<Ev("error", Empty, None)>>
              /\ pc' = "done"
              /\ UNCHANGED <<hot_log, mem, last_selected_role, sent_content_cache,
                             classification_result, content_classification,
                             generate_calls, stream_calls, rag_calls>>]_vars

\* a follow-up turn on a session that is gone ended with the one error frame, the
\* earlier log and the selector's persona still in place
C37_Witness ==
    /\ pc = "done"
    /\ session = NoSession
    /\ events = <<Ev("error", Empty, None)>>
    /\ hot_log = PriorLog
    /\ last_selected_role = "r2"
    /\ stream_calls = 0

----------------------------------------------------------------------------
\* the system prompt chat_stream has assembled
SystemPrompt == <<"prompt">>

\* the message list the first generate_stream call of the turn hands to the backend,
\* without the system message
MessagesSent ==
    SelectSeq(build_messages(message, SystemPrompt, history), IsDialogueRole)

\* the first stream is open and the turn's own reply is not saved yet
ReplyPending == pc \in {"stream", "fc_stream", "rag_wait"}

\* C39: in a turn with no concurrent turn on the same session, the history passed to
\* the generation backend is read before the turn's own user message is appended, so
\* the message list sent to the backend is the log as it stands with the current user
\* message in it: it contains that message exactly once, as its last entry.
C39_CurrentMessageOnceAtEnd ==
    (ReplyPending /\ mem.writes_ok)
        => /\ MessagesSent = build_message_history(hot_log)
           /\ MessagesSent[Len(MessagesSent)] = [role |-> "user", content |-> message]
           /\ Cardinality({i \in 1..Len(MessagesSent) :
                              MessagesSent[i] = [role |-> "user", content |-> message]})
                  = 1

\* a follow-up turn streams: the backend got the two earlier entries and the message
C39_Witness ==
    /\ pc = "stream"
    /\ chunks # <<>>
    /\ mem.writes_ok
    /\ history = build_message_history(PriorLog)
    /\ Len(MessagesSent) = 3

----------------------------------------------------------------------------
\* the text mentions function_call and does not parse to a JSON object
IncompleteFunctionCallText(content_str) ==
    /\ Contains(content_str, "fck")
    /\ ~(LooksLikeFunctionCallJson(content_str)
            /\ JsonLoadsFunctionCall(content_str) # "error")

\* the first stream delivered one more chunk, a dict whose content is such a text
IncompleteFunctionCallChunk ==
    /\ Len(chunks') = Len(chunks) + 1
    /\ chunks'[Len(chunks')].kind = "dict"
    /\ IncompleteFunctionCallText(chunks'[Len(chunks')].content)

\* C40: a content-dict chunk whose text contains the substring function_call but is
\* not a complete JSON object is dropped entirely: it adds nothing to the accumulated
\* text, emits no content, emotion or action event, and dispatches no function call.
C40_IncompleteFunctionCallDropped ==
    [][IncompleteFunctionCallChunk
           => /\ content_buffer' = content_buffer
              /\ events' = events
              /\ rag_calls' = rag_calls
              /\ stream_calls' = stream_calls]_vars

====
